---------------------------- MODULE Spec2Model ----------------------------
(***************************************************************************)
(* CollabCanvas: the command history (src/src/utils/commands.ts) and the   *)
(* canvas context (src/src/contexts/CanvasContext.tsx) as a state machine. *)
(*                                                                         *)
(* A JavaScript value v is written <<v>>; the value undefined is <<>>.  An  *)
(* object is a function from its own property names to such values, so an  *)
(* own property holding undefined and a missing property are different     *)
(* objects that read alike.  Property order is not modelled.               *)
(***************************************************************************)
EXTENDS Integers, Sequences, FiniteSets, TLC

\* ------------------------------------------------------------------ bounds
\* Date.now() ranges over 1..MaxTime.
MaxTime == 2
\* Intents (add, update, delete, group, undo, redo) issued in a run of Spec.
MaxIntents == 3
\* updateObjectLive calls in a run.
MaxLive == 1
\* Writes of other clients to the shared store in a run.
MaxRemote == 1
\* Store calls that fail in a run.
MaxRejects == 1
\* Calls on the command history in a run of SpecLog.
MaxLogCalls == 4
\* Largest cap of the command history.  The source sets the cap to 100
\* (commands.ts:592); the log treats every cap alike, and small caps let a
\* run reach eviction.
MaxCap == 2
\* Calls on the command history in a run of SpecRound.
MaxRoundCalls == 6
\* Calls on the command history in a run of SpecEcho.
MaxEchoCalls == 3
\* Intents issued in a run of SpecSync.
MaxSyncIntents == 2
\* Nesting depth and array length of the values handed to
\* removeUndefinedValues in SpecClean.
MaxApplyCalls == 2
MaxListLen == 2
MaxBatch == 3
MaxBatchCalls == 2
MaxFlagCalls == 3
MaxDragLive == 2
MaxDepth == 2
MaxItems == 2

\* --------------------------------------------------------------- JS values
Undefined == <<>>

\* Non-finite numbers, as integers outside the range of every coordinate.
NaN == 999999
NegInfinity == -999998

NumericKeys == {"id", "x", "y", "width", "height", "x2", "y2", "zIndex", "createdAt", "lastModified"}

\* obj[key]
Get(obj, key) == IF key \in DOMAIN obj THEN obj[key] ELSE Undefined

\* { ...a, ...b }
Spread(a, b) == [k \in DOMAIN a \cup DOMAIN b |-> IF k \in DOMAIN b THEN b[k] ELSE a[k]]

\* a || b on numbers: a is falsy when undefined, 0 or NaN
OrElse(a, b) == IF a = Undefined \/ a[1] = 0 \/ a[1] = NaN THEN b ELSE a

idOf(obj) == obj.id[1]

\* prev.find(obj => obj.id === id) !== undefined
Has(list, id) == \E i \in 1..Len(list) : idOf(list[i]) = id

\* prev.find(obj => obj.id === id), for an id the list holds
Find(list, id) == list[CHOOSE i \in 1..Len(list) : idOf(list[i]) = id /\ \A j \in 1..(i - 1) : idOf(list[j]) # id]

\* prev.filter(obj => obj.id !== id)
Without(list, id) == SelectSeq(list, LAMBDA o : idOf(o) # id)

\* JSON.stringify of one object: a property holding undefined is left out and
\* every non-finite number is written null, so NaN and -Infinity read alike.
JSONstringifyObject(obj) == [k \in {j \in DOMAIN obj : obj[j] # Undefined} |-> IF k \in NumericKeys /\ obj[k][1] \in {NaN, NegInfinity} THEN <<NaN>> ELSE obj[k]]

\* JSON.stringify of the object list
JSONstringify(list) == [i \in 1..Len(list) |-> JSONstringifyObject(list[i])]

\* removeUndefinedValues on an object whose properties hold no nested objects
removeUndefinedValues(obj) == [k \in {j \in DOMAIN obj : obj[j] # Undefined} |-> obj[k]]

\* Values of any shape, tagged with their type: undefined, null, a number, an
\* array of values, an object with own properties.
JSUndefined == [t |-> "undefined"]

JSNull == [t |-> "null"]

JSNumber(n) == [t |-> "number", v |-> n]

JSArray(items) == [t |-> "array", items |-> items]

JSObject(fields) == [t |-> "object", fields |-> fields]

\* removeUndefinedValues on a value of any shape: null and undefined are
\* returned as they are, an array is mapped item by item, an object keeps its
\* own properties that are not undefined, each cleaned in turn.
RECURSIVE removeUndefinedValuesDeep(_)
removeUndefinedValuesDeep(obj) ==
    CASE obj.t \in {"null", "undefined"} -> obj
      [] obj.t = "array" -> JSArray([i \in DOMAIN obj.items |-> removeUndefinedValuesDeep(obj.items[i])])
      [] obj.t = "object" -> JSObject([key \in {k \in DOMAIN obj.fields : obj.fields[k] # JSUndefined} |-> removeUndefinedValuesDeep(obj.fields[key])])
      [] OTHER -> obj

\* ------------------------------------------------------------------- state
VARIABLES
    objects,            \* the state cell `objects` (its latest value)
    objectsRef,         \* objectsRef.current
    rendered,           \* the `objects` the callbacks of the last render close over
    dirty,              \* the state cell received a new array since the last render
    history,            \* CommandHistory.history
    currentIndex,       \* CommandHistory.currentIndex
    isExecutingCommand, \* isExecutingCommandRef.current
    inflight,           \* calls suspended at the await of a store write, oldest first
    store,              \* the shared store: document id -> record
    now,                \* Date.now()
    nextId,             \* the next id generateId() returns
    budget,             \* what is left of the bounds
    maxHistorySize,     \* CommandHistory.maxHistorySize, never assigned after construction
    order,              \* how document names compare: "asc" or "desc"
    snap,               \* history variable: the snapshot the last step delivered, if any
    traced,             \* history variable: whether this run records trail
    trail               \* history variable: the calls made on the command history

vars == <<objects, objectsRef, rendered, dirty, history, currentIndex, isExecutingCommand, inflight, store, now, nextId, budget, maxHistorySize, order, snap, traced, trail>>

\* ---------------------------------------------------------------- commands
\* The fields of a command that execute() and undo() read.  serial numbers
\* the commands in the order of their construction; only trail reads it.
Command(kind, object, objectId, updates, previousState) == [kind |-> kind, object |-> object, objectId |-> objectId, updates |-> updates, previousState |-> previousState, serial |-> nextId + MaxLogCalls - budget.intents]

AddObjectCommand(object) == Command("add", object, idOf(object), <<>>, <<>>)

DeleteObjectCommand(object) == Command("delete", object, idOf(object), <<>>, <<>>)

UpdateObjectCommand(objectId, updates, previousState) == Command("update", <<>>, objectId, updates, previousState)

CreateGroupCommand(groupObject) == Command("group", groupObject, idOf(groupObject), <<>>, <<>>)

\* AddObjectCommand.execute whose updater appends without looking for the id
AddObjectCommandExecute_AlwaysAppends(cmd, prev) == Append(prev, cmd.object)

\* The updater AddObjectCommand.execute hands to updateLocalState.
AddObjectCommandExecute(cmd, prev) == IF Has(prev, cmd.objectId) THEN prev ELSE Append(prev, cmd.object)

\* AddObjectCommand.undo whose updater returns prev
AddObjectCommandUndo_KeepsObject(cmd, prev) == prev

AddObjectCommandUndo(cmd, prev) == Without(prev, cmd.objectId)

DeleteObjectCommandExecute(cmd, prev) == Without(prev, cmd.objectId)

\* DeleteObjectCommand.undo whose updater appends without looking for the id
DeleteObjectCommandUndo_AlwaysAppends(cmd, prev) == Append(prev, cmd.object)

DeleteObjectCommandUndo(cmd, prev) == IF Has(prev, cmd.objectId) THEN prev ELSE Append(prev, cmd.object)

\* prev.map(obj => obj.id === id ? { ...obj, ...fields, lastModified: Date.now() } : obj)
MapUpdate(prev, id, fields, t) == [i \in 1..Len(prev) |-> IF idOf(prev[i]) = id THEN Spread(Spread(prev[i], fields), [lastModified |-> <<t>>]) ELSE prev[i]]

UpdateObjectCommandExecute(cmd, prev, t) == MapUpdate(prev, cmd.objectId, cmd.updates, t)

UpdateObjectCommandUndo(cmd, prev, t) == MapUpdate(prev, cmd.objectId, cmd.previousState, t)

CreateGroupCommandExecute(cmd, prev) == IF Has(prev, cmd.objectId) THEN prev ELSE Append(prev, cmd.object)

\* CreateGroupCommand.undo that removes the grouped objects with the group
CreateGroupCommandUndo_RemovesMembers(cmd, prev) == SelectSeq(prev, LAMBDA o : idOf(o) # cmd.objectId /\ idOf(o) \notin cmd.object.groupedObjects[1])

CreateGroupCommandUndo(cmd, prev) == Without(prev, cmd.objectId)

\* this.commands of an UpdateMultipleObjectsCommand: one UpdateObjectCommand
\* for each entry <<id, updates, previousState>> of the list updates.
UpdateMultipleObjectsCommand(updates) == [kind |-> "batch", commands |-> [i \in DOMAIN updates |-> UpdateObjectCommand(updates[i][1], updates[i][2], updates[i][3])]]

\* The local mutation of cmd.execute() (dir = "execute") or cmd.undo()
\* (dir = "undo") on the list prev, the clock reading t.
LocalMutation(cmd, dir, prev, t) ==
    CASE cmd.kind = "add" -> IF dir = "execute" THEN AddObjectCommandExecute(cmd, prev) ELSE AddObjectCommandUndo(cmd, prev)
      [] cmd.kind = "delete" -> IF dir = "execute" THEN DeleteObjectCommandExecute(cmd, prev) ELSE DeleteObjectCommandUndo(cmd, prev)
      [] cmd.kind = "update" -> IF dir = "execute" THEN UpdateObjectCommandExecute(cmd, prev, t) ELSE UpdateObjectCommandUndo(cmd, prev, t)
      [] cmd.kind = "group" -> IF dir = "execute" THEN CreateGroupCommandExecute(cmd, prev) ELSE CreateGroupCommandUndo(cmd, prev)

\* The updater returned prev itself (`return prev; // Already exists`):
\* the state cell keeps its array and no render is scheduled.
ReturnsPrev(cmd, dir, prev) ==
    \/ cmd.kind \in {"add", "group"} /\ dir = "execute" /\ Has(prev, cmd.objectId)
    \/ cmd.kind = "delete" /\ dir = "undo" /\ Has(prev, cmd.objectId)

\* -------------------------------------------------------------- store calls
NoWrite == [op |-> "none", id |-> 0, data |-> <<>>]

\* setDoc(objectRef, cleanedObj)
addToFirestore(obj) == [op |-> "set", id |-> idOf(obj), data |-> removeUndefinedValues(obj)]

\* deleteDoc(objectRef)
removeFromFirestore(id) == [op |-> "delete", id |-> id, data |-> <<>>]

\* setDoc(objectRef, cleanedObj, { merge: true }) of the mirror's object
\* merged with the updates, when the mirror holds the id; no call otherwise.
\* names, which the store does not see, keeps the property names of updates.
updateInFirestore(ref, id, updates, t) ==
    IF Has(ref, id)
    THEN [op |-> "merge", id |-> id, names |-> DOMAIN updates, data |-> removeUndefinedValues(Spread(Spread(Find(ref, id), removeUndefinedValues(updates)), [lastModified |-> <<t>>]))]
    ELSE NoWrite

\* The store call of cmd.execute() or cmd.undo(): ref is the mirror after the
\* local mutation, t the clock reading of updateInFirestore.
StoreCall(cmd, dir, ref, t) ==
    CASE cmd.kind \in {"add", "group"} -> IF dir = "execute" THEN addToFirestore(cmd.object) ELSE removeFromFirestore(cmd.objectId)
      [] cmd.kind = "delete" -> IF dir = "execute" THEN removeFromFirestore(cmd.objectId) ELSE addToFirestore(cmd.object)
      [] cmd.kind = "update" -> updateInFirestore(ref, cmd.objectId, IF dir = "execute" THEN cmd.updates ELSE cmd.previousState, t)

\* this.commands.map(cmd => cmd.execute()) from member i on: each execute
\* runs up to its await before the next one starts.  The list after the
\* local mutations, and the store calls issued, oldest first.
RECURSIVE ExecuteEach(_, _, _, _)
ExecuteEach(commands, i, list, t) ==
    IF i > Len(commands)
    THEN [objects |-> list, calls |-> <<>>]
    ELSE LET next == UpdateObjectCommandExecute(commands[i], list, t)
             w == StoreCall(commands[i], "execute", next, t)
             rest == ExecuteEach(commands, i + 1, next, t)
         IN  [objects |-> rest.objects, calls |-> IF w.op = "none" THEN rest.calls ELSE <<[member |-> i, w |-> w]>> \o rest.calls]

\* The loop `for (let i = ...; i >= 0; i--) await this.commands[i].undo()`
\* from member i down to its next await of a store call: a member whose
\* undo issues no call is followed at once by the one before it.  The list
\* after, the members whose undo ran, and the call issued, if any.
RECURSIVE UndoFrom(_, _, _, _)
UndoFrom(commands, i, list, t) ==
    IF i = 0
    THEN [objects |-> list, reverted |-> <<>>, calls |-> <<>>]
    ELSE LET next == UpdateObjectCommandUndo(commands[i], list, t)
             w == StoreCall(commands[i], "undo", next, t)
             rest == UndoFrom(commands, i - 1, next, t)
         IN  IF w.op = "none"
             THEN [objects |-> rest.objects, reverted |-> <<i>> \o rest.reverted, calls |-> rest.calls]
             ELSE [objects |-> next, reverted |-> <<i>>, calls |-> <<[member |-> i, w |-> w]>>]

\* The shared store after it has applied the call w.
ApplyWrite(s, w) ==
    CASE w.op = "set" -> [i \in DOMAIN s \cup {w.id} |-> IF i = w.id THEN w.data ELSE s[i]]
      [] w.op = "merge" -> [i \in DOMAIN s \cup {w.id} |-> IF i # w.id THEN s[i] ELSE IF i \in DOMAIN s THEN Spread(s[i], w.data) ELSE w.data]
      [] w.op = "delete" -> [i \in DOMAIN s \ {w.id} |-> s[i]]
      [] OTHER -> s

\* The order in which a snapshot lists the documents: the store lists them
\* by document name, and the names generateId() hands out run with ("asc")
\* or against ("desc") the order of creation.
Listing(s, ord) ==
    LET n == Cardinality(DOMAIN s)
        asc == CHOOSE q \in [1..n -> DOMAIN s] : \A i, j \in 1..n : i < j => q[i] < q[j]
    IN  IF ord = "asc" THEN asc ELSE [i \in 1..n |-> asc[n + 1 - i]]

\* snapshot.forEach(doc => firestoreObjects.push(doc.data()))
SnapshotList(s, q) == [i \in DOMAIN q |-> s[q[i]]]

\* The array the listener builds from a snapshot of store s.
Snapshot(s) == SnapshotList(s, Listing(s, order))

\* ----------------------------------------------------------- CommandHistory
\* history.slice(0, end)
Slice0(h, end) == IF end >= 0 THEN SubSeq(h, 1, IF end < Len(h) THEN end ELSE Len(h)) ELSE SubSeq(h, 1, Len(h) + end)

\* executeCommand without `this.history = this.history.slice(0, this.currentIndex + 1)`
executeCommand_KeepsRedoable(h, index, command) ==
    LET pushed == Append(h, command)
    IN  IF Len(pushed) > maxHistorySize
        THEN [history |-> Tail(pushed), currentIndex |-> index + 1 - 1]
        ELSE [history |-> pushed, currentIndex |-> index + 1]

\* executeCommand without `this.history.shift(); this.currentIndex--`
executeCommand_NeverEvicts(h, index, command) ==
    LET truncated == IF index < Len(h) - 1 THEN Slice0(h, index + 1) ELSE h
    IN  [history |-> Append(truncated, command), currentIndex |-> index + 1]

\* CommandHistory.executeCommand up to `await command.execute()`: the log
\* after truncating, pushing command and limiting the size.
executeCommand(h, index, command) ==
    LET truncated == IF index < Len(h) - 1 THEN Slice0(h, index + 1) ELSE h
        pushed == Append(truncated, command)
    IN  IF Len(pushed) > maxHistorySize
        THEN [history |-> Tail(pushed), currentIndex |-> index + 1 - 1]
        ELSE [history |-> pushed, currentIndex |-> index + 1]

canUndo == currentIndex >= 0

canRedo == currentIndex < Len(history) - 1

\* --------------------------------------------------------- group geometry
padding == 20

Num(obj, key) == obj[key][1]

Min(S) == CHOOSE m \in S : \A n \in S : m <= n

Max(S) == CHOOSE m \in S : \A n \in S : m >= n

\* The extent of one selected object: [lo, hi] on each axis.
Extent(obj) ==
    IF obj.type = <<"line">>
    THEN [minX |-> Min({Num(obj, "x"), OrElse(Get(obj, "x2"), obj.x)[1]}), maxX |-> Max({Num(obj, "x"), OrElse(Get(obj, "x2"), obj.x)[1]}),
          minY |-> Min({Num(obj, "y"), OrElse(Get(obj, "y2"), obj.y)[1]}), maxY |-> Max({Num(obj, "y"), OrElse(Get(obj, "y2"), obj.y)[1]})]
    ELSE IF obj.type = <<"circle">>
    THEN [minX |-> Num(obj, "x") - Num(obj, "width") \div 2, maxX |-> Num(obj, "x") + Num(obj, "width") \div 2,
          minY |-> Num(obj, "y") - Num(obj, "width") \div 2, maxY |-> Num(obj, "y") + Num(obj, "width") \div 2]
    ELSE [minX |-> Num(obj, "x") - Num(obj, "width") \div 2, maxX |-> Num(obj, "x") + Num(obj, "width") \div 2,
          minY |-> Num(obj, "y") - Num(obj, "height") \div 2, maxY |-> Num(obj, "y") + Num(obj, "height") \div 2]

\* GroupBounds without `minX -= padding` ... `maxY += padding`
GroupBounds_NoPadding(selectedObjects) ==
    LET E == {Extent(selectedObjects[i]) : i \in 1..Len(selectedObjects)}
    IN  [minX |-> Min({e.minX : e \in E}), minY |-> Min({e.minY : e \in E}),
         maxX |-> Max({e.maxX : e \in E}), maxY |-> Max({e.maxY : e \in E})]

\* The padded bounds of the selected objects (a non-empty list).
GroupBounds(selectedObjects) ==
    LET E == {Extent(selectedObjects[i]) : i \in 1..Len(selectedObjects)}
    IN  [minX |-> Min({e.minX : e \in E}) - padding, minY |-> Min({e.minY : e \in E}) - padding,
         maxX |-> Max({e.maxX : e \in E}) + padding, maxY |-> Max({e.maxY : e \in E}) + padding]

\* newGroupObject whose zIndex is the largest of the selected objects
GroupObject_KeepsMaxZ(selectedObjects, selectedIds, id, t1, t2) ==
    LET b == GroupBounds(selectedObjects)
        width == b.maxX - b.minX
        height == b.maxY - b.minY
        geometry == IF Len(selectedObjects) = 0
                    THEN [x |-> <<NaN>>, y |-> <<NaN>>, width |-> <<NegInfinity>>, height |-> <<NegInfinity>>, zIndex |-> <<NegInfinity>>]
                    ELSE [x |-> <<b.minX + width \div 2>>, y |-> <<b.minY + height \div 2>>, width |-> <<width>>, height |-> <<height>>,
                          zIndex |-> <<Max({OrElse(Get(selectedObjects[i], "zIndex"), <<0>>)[1] : i \in 1..Len(selectedObjects)})>>]
    IN  Spread(geometry, [type |-> <<"group">>, fill |-> <<"#000000">>, groupedObjects |-> <<selectedIds>>, id |-> <<id>>, createdAt |-> <<t1>>, lastModified |-> <<t2>>])

\* newGroupObject of createGroup.  With no selected object in the list the
\* bounds stay at +-Infinity and the centre is Infinity - Infinity.
\* nickname, shadow and createdBy, which nothing reads, are left out.
GroupObject(selectedObjects, selectedIds, id, t1, t2) ==
    LET b == GroupBounds(selectedObjects)
        width == b.maxX - b.minX
        height == b.maxY - b.minY
        geometry == IF Len(selectedObjects) = 0
                    THEN [x |-> <<NaN>>, y |-> <<NaN>>, width |-> <<NegInfinity>>, height |-> <<NegInfinity>>, zIndex |-> <<NegInfinity>>]
                    ELSE [x |-> <<b.minX + width \div 2>>, y |-> <<b.minY + height \div 2>>, width |-> <<width>>, height |-> <<height>>,
                          zIndex |-> <<Max({OrElse(Get(selectedObjects[i], "zIndex"), <<0>>)[1] : i \in 1..Len(selectedObjects)}) + 1>>]
    IN  Spread(geometry, [type |-> <<"group">>, fill |-> <<"#000000">>, groupedObjects |-> <<selectedIds>>, id |-> <<id>>, createdAt |-> <<t1>>, lastModified |-> <<t2>>])

\* The halves the geometry takes are whole numbers.
ExactHalves(selectedObjects) ==
    /\ \A i \in 1..Len(selectedObjects) : Num(selectedObjects[i], "width") % 2 = 0 /\ Num(selectedObjects[i], "height") % 2 = 0
    /\ Len(selectedObjects) > 0 => LET b == GroupBounds(selectedObjects) IN (b.maxX - b.minX) % 2 = 0 /\ (b.maxY - b.minY) % 2 = 0

\* ------------------------------------------------------------------ inputs
\* The documents the shared store holds when the client subscribes.
InitStore ==
    [i \in {1, 2} |->
        IF i = 1
        THEN [id |-> <<1>>, type |-> <<"rectangle">>, x |-> <<0>>, y |-> <<0>>, width |-> <<100>>, height |-> <<100>>, fill |-> <<"red">>, zIndex |-> <<1>>, createdAt |-> <<0>>, lastModified |-> <<0>>]
        ELSE [id |-> <<2>>, type |-> <<"circle">>, x |-> <<200>>, y |-> <<0>>, width |-> <<100>>, height |-> <<100>>, zIndex |-> <<2>>, createdAt |-> <<0>>, lastModified |-> <<0>>]]

\* Arguments of addObject: a line with an endpoint on an axis and no size.
AddInputs == {[type |-> <<"line">>, x |-> <<10>>, y |-> <<10>>, x2 |-> <<0>>, y2 |-> <<-10>>, zIndex |-> <<0>>]}

\* Arguments of updateObject: a new width for the rectangle, and a fill for
\* the circle, which has none.
UpdateInputs == {<<1, [width |-> <<140>>]>>, <<2, [fill |-> <<"blue">>]>>}

\* Arguments of updateObjectLive: a drag of the rectangle.
LiveInputs == {<<1, [x |-> <<50>>]>>}

\* What another client writes: it moves the rectangle or deletes the circle.
RemoteInputs == {[op |-> "merge", id |-> 1, data |-> [x |-> <<30>>, lastModified |-> <<MaxTime>>]], [op |-> "delete", id |-> 2, data |-> <<>>]}

\* Arguments of deleteObject: the rectangle, first in the list, and the
\* first object this client creates, last in the list when created.
DeleteInputs == {1, 3}

\* Arguments of createGroup: the two stored objects, the circle with the
\* first object this client creates, which is absent until then, and a
\* selection of one.
GroupInputs == {{1, 2}, {2, 3}, {1}}

\* Arguments of addObject in SpecRound: the line, and a rectangle that has a
\* fill.
ShapeInputs == AddInputs \cup {[type |-> <<"rectangle">>, x |-> <<0>>, y |-> <<0>>, width |-> <<50>>, height |-> <<50>>, fill |-> <<"red">>, zIndex |-> <<0>>]}

\* Arguments of updateObject in SpecRound: a fill for the first object this
\* client creates.
FillInputs == {<<3, [fill |-> <<"green">>]>>}

\* The values nested at most d deep, in arrays of at most MaxItems items and
\* objects with properties a and b.
RECURSIVE JSValues(_)
JSValues(d) ==
    IF d = 0
    THEN {JSUndefined, JSNull, JSNumber(1)}
    ELSE LET V == JSValues(d - 1)
         IN  V \cup {JSArray(items) : items \in UNION {[1..n -> V] : n \in 0..MaxItems}}
               \cup {JSObject(fields) : fields \in UNION {[K -> V] : K \in SUBSET {"a", "b"}}}

\* Arguments of removeUndefinedValues: objects with one property.
CleanInputs == {JSObject([data |-> v]) : v \in JSValues(MaxDepth)}

\* The objects of the lists and commands of SpecApply: for each of three
\* ids, an object and a copy of it moved to x = 30.
ApplyPool ==
    LET third == [id |-> <<3>>, type |-> <<"group">>, x |-> <<150>>, y |-> <<50>>, width |-> <<320>>, height |-> <<120>>, zIndex |-> <<0>>, createdAt |-> <<1>>, lastModified |-> <<1>>]
        base == {InitStore[1], InitStore[2], third}
    IN  base \cup {Spread(o, [x |-> <<30>>]) : o \in base}

\* The lists of at most MaxListLen objects of ApplyPool, no id twice.
ApplyLists == {l \in UNION {[1..n -> ApplyPool] : n \in 0..MaxListLen} : \A i, j \in DOMAIN l : i # j => idOf(l[i]) # idOf(l[j])}

\* The updates the batches of SpecBatch are made of: a width and a drag of
\* the rectangle, a fill for the circle, each with the values it replaces.
BatchUpdates ==
    {<<u[1], u[2], [k \in DOMAIN u[2] |-> Get(InitStore[u[1]], k)]>> : u \in UpdateInputs \cup LiveInputs}

\* Arguments of the constructor of UpdateMultipleObjectsCommand: the lists
\* of one to MaxBatch updates.
BatchInputs == UNION {[1..n -> BatchUpdates] : n \in 1..MaxBatch}

\* The objects of the lists of SpecGroup.  Lines from (10, 10) whose other
\* endpoint has, on each axis, no coordinate or one that is negative, zero
\* or positive, and whose zIndex is missing, negative, zero or positive.
GroupLines ==
    {Spread(Spread([id |-> <<1>>, type |-> <<"line">>, x |-> <<10>>, y |-> <<10>>, width |-> <<100>>, height |-> <<100>>, createdAt |-> <<0>>, lastModified |-> <<0>>], end), z) :
        end \in {Spread(ex, ey) : ex \in {<<>>} \cup {[x2 |-> <<v>>] : v \in {-10, 0, 30}}, ey \in {<<>>} \cup {[y2 |-> <<v>>] : v \in {-10, 0, 30}}},
        z \in {<<>>} \cup {[zIndex |-> <<v>>] : v \in {-1, 0, 3}}}

\* The circle of the store with its zIndex, with a negative one and without.
GroupCircles == {InitStore[2], Spread(InitStore[2], [zIndex |-> <<-1>>]), [k \in DOMAIN InitStore[2] \ {"zIndex"} |-> InitStore[2][k]]}

\* Arguments of updateObjectLive in SpecDrag: positions the rectangle passes
\* while it is dragged.
DragLiveInputs == {<<1, [x |-> <<50>>]>>, <<1, [x |-> <<55>>]>>}

\* Arguments of updateObject in SpecDrag: the position the drag ends at.
DragInputs == {<<1, [x |-> <<60>>]>>}

\* ----------------------------------------------------------------- actions
Spend(what) == budget' = [budget EXCEPT ![what] = @ - 1]

\* What snap records of a step: no snapshot, or the snapshot `got` delivered
\* with the outcome `result` to a client whose list and mirror were `before`
\* and `mirror`, `busy` telling whether a store call was in flight.
NoSnap == [result |-> "none", got |-> <<>>, before |-> <<>>, mirror |-> <<>>, busy |-> FALSE]

Delivered(newObjects, result) == [result |-> result, got |-> newObjects, before |-> objects, mirror |-> objectsRef, busy |-> inflight # <<>>]

\* What Date.now() may return when the last reading was t: the clock never
\* goes backwards and may return the same value twice.
ClockReads(t) == {u \in {t, t + 1} : u <= MaxTime}

\* Start whose updateLocalState leaves the mirror to the next render
Start_LeavesMirror(cmd, dir, call, t0) ==
    \E t1 \in IF cmd.kind = "update" THEN ClockReads(t0) ELSE {t0} :
    \E t2 \in IF cmd.kind = "update" THEN ClockReads(t1) ELSE {t0} :
        LET next == LocalMutation(cmd, dir, objects, t1)
            w == StoreCall(cmd, dir, next, t2)
        IN  /\ objects' = next
            /\ objectsRef' = objectsRef
            /\ dirty' = (dirty \/ ~ReturnsPrev(cmd, dir, objects))
            /\ now' = t2
            /\ inflight' = IF w.op = "none" THEN inflight ELSE Append(inflight, [call |-> call, w |-> w])
            /\ trail' = IF traced
                        THEN Append(trail, [call |-> call, serial |-> cmd.serial, cmd |-> cmd, index |-> currentIndex, pre |-> objects, post |-> next,
                                            log |-> [k \in 1..Len(history) |-> history[k].serial],
                                            outcome |-> IF w.op = "none" THEN "ok" ELSE "pending"])
                        ELSE trail

\* cmd.execute() or cmd.undo() up to its await: updateLocalState runs the
\* updater on the state cell and stores the result in the mirror, then the
\* store call is issued on behalf of `call`.  A call that issues nothing
\* (updateInFirestore without the object) adds nothing to inflight.  Only an
\* UpdateObjectCommand reads the clock: once in the updater, once in
\* updateInFirestore.  t0 is the last clock reading of the task.
Start(cmd, dir, call, t0) ==
    \E t1 \in IF cmd.kind = "update" THEN ClockReads(t0) ELSE {t0} :
    \E t2 \in IF cmd.kind = "update" THEN ClockReads(t1) ELSE {t0} :
        LET next == LocalMutation(cmd, dir, objects, t1)
            w == StoreCall(cmd, dir, next, t2)
        IN  /\ objects' = next
            /\ objectsRef' = next
            /\ dirty' = (dirty \/ ~ReturnsPrev(cmd, dir, objects))
            /\ now' = t2
            /\ inflight' = IF w.op = "none" THEN inflight ELSE Append(inflight, [call |-> call, w |-> w])
            /\ trail' = IF traced
                        THEN Append(trail, [call |-> call, serial |-> cmd.serial, cmd |-> cmd, index |-> currentIndex, pre |-> objects, post |-> next,
                                            log |-> [k \in 1..Len(history) |-> history[k].serial],
                                            outcome |-> IF w.op = "none" THEN "ok" ELSE "pending"])
                        ELSE trail

\* commandHistoryRef.current.executeCommand(command) up to its await
Commit(command, t0) ==
    /\ history' = executeCommand(history, currentIndex, command).history
    /\ currentIndex' = executeCommand(history, currentIndex, command).currentIndex
    /\ Start(command, "execute", "commit", t0)

addObject(object) ==
    /\ ~isExecutingCommand
    /\ budget.intents > 0
    /\ Spend("intents")
    /\ \E t1 \in ClockReads(now) : \E t2 \in ClockReads(t1) :
          LET newObject == Spread(object, [id |-> <<nextId>>, createdAt |-> <<t1>>, lastModified |-> <<t2>>,
                                           width |-> OrElse(Get(object, "width"), <<100>>), height |-> OrElse(Get(object, "height"), <<100>>)])
          IN  Commit(AddObjectCommand(newObject), t2)
    /\ nextId' = nextId + 1
    /\ UNCHANGED <<rendered, isExecutingCommand, store, maxHistorySize, order, traced>>
    /\ snap' = NoSnap

updateObject(id, updates) ==
    /\ ~isExecutingCommand
    /\ Has(rendered, id)
    /\ budget.intents > 0
    /\ Spend("intents")
    /\ LET existingObject == Find(rendered, id)
           previousState == [k \in DOMAIN updates |-> Get(existingObject, k)]
       IN  Commit(UpdateObjectCommand(id, updates, previousState), now)
    /\ UNCHANGED <<rendered, isExecutingCommand, store, nextId, maxHistorySize, order, traced>>
    /\ snap' = NoSnap

\* updateObjectLive that also calls updateInFirestore
updateObjectLive_WritesStore(id, updates) ==
    /\ budget.live > 0
    /\ Spend("live")
    /\ objects' = [i \in 1..Len(objects) |-> IF idOf(objects[i]) = id THEN Spread(objects[i], updates) ELSE objects[i]]
    /\ dirty' = TRUE
    /\ trail' = trail
    /\ inflight' = IF Has(objects, id) THEN Append(inflight, [call |-> "commit", w |-> updateInFirestore(objects, id, updates, now)]) ELSE inflight
    /\ UNCHANGED <<objectsRef, rendered, history, currentIndex, isExecutingCommand, store, now, nextId, maxHistorySize, order, traced>>
    /\ snap' = NoSnap

updateObjectLive(id, updates) ==
    /\ budget.live > 0
    /\ Spend("live")
    /\ objects' = [i \in 1..Len(objects) |-> IF idOf(objects[i]) = id THEN Spread(objects[i], updates) ELSE objects[i]]
    /\ dirty' = TRUE
    /\ trail' = trail
    /\ UNCHANGED <<objectsRef, rendered, history, currentIndex, isExecutingCommand, inflight, store, now, nextId, maxHistorySize, order, traced>>
    /\ snap' = NoSnap

deleteObject(id) ==
    /\ ~isExecutingCommand
    /\ Has(rendered, id)
    /\ budget.intents > 0
    /\ Spend("intents")
    /\ Commit(DeleteObjectCommand(Find(rendered, id)), now)
    /\ UNCHANGED <<rendered, isExecutingCommand, store, nextId, maxHistorySize, order, traced>>
    /\ snap' = NoSnap

createGroup(selectedIds) ==
    /\ Cardinality(selectedIds) >= 2
    /\ budget.intents > 0
    /\ Spend("intents")
    /\ LET selectedObjects == SelectSeq(rendered, LAMBDA o : idOf(o) \in selectedIds)
       IN  /\ ExactHalves(selectedObjects)
           /\ \E t1 \in ClockReads(now) : \E t2 \in ClockReads(t1) : Commit(CreateGroupCommand(GroupObject(selectedObjects, selectedIds, nextId, t1, t2)), t2)
    /\ nextId' = nextId + 1
    /\ UNCHANGED <<rendered, isExecutingCommand, store, maxHistorySize, order, traced>>
    /\ snap' = NoSnap

\* setObjects that saves the replacement to the history
setObjects_SavesToHistory(newObjects) ==
    /\ IF isExecutingCommand
       THEN snap' = Delivered(newObjects, "discarded") /\ UNCHANGED <<objects, objectsRef, dirty, trail, history, currentIndex>>
       ELSE IF JSONstringify(objects) = JSONstringify(newObjects)
       THEN snap' = Delivered(newObjects, "same") /\ UNCHANGED <<objects, objectsRef, dirty, trail, history, currentIndex>>
       ELSE /\ objects' = newObjects
            /\ objectsRef' = newObjects
            /\ dirty' = TRUE
            /\ snap' = Delivered(newObjects, "replaced")
            /\ trail' = <<>>
            /\ history' = Slice0(history, currentIndex + 1)
            /\ currentIndex' = currentIndex
    /\ UNCHANGED <<rendered, isExecutingCommand, inflight, store, now, nextId, budget, maxHistorySize, order, traced>>

\* setObjects without `if (prevJson === newJson) return prev`
setObjects_AlwaysReplaces(newObjects) ==
    /\ IF isExecutingCommand
       THEN snap' = Delivered(newObjects, "discarded") /\ UNCHANGED <<objects, objectsRef, dirty, trail>>
       ELSE /\ objects' = newObjects
            /\ objectsRef' = newObjects
            /\ dirty' = TRUE
            /\ snap' = Delivered(newObjects, IF JSONstringify(objects) = JSONstringify(newObjects) THEN "same" ELSE "replaced")
            /\ trail' = <<>>
    /\ UNCHANGED <<rendered, history, currentIndex, isExecutingCommand, inflight, store, now, nextId, budget, maxHistorySize, order, traced>>

\* setObjects without `objectsRef.current = newObjects`
setObjects_KeepsMirror(newObjects) ==
    /\ IF isExecutingCommand
       THEN snap' = Delivered(newObjects, "discarded") /\ UNCHANGED <<objects, objectsRef, dirty, trail>>
       ELSE IF JSONstringify(objects) = JSONstringify(newObjects)
       THEN snap' = Delivered(newObjects, "same") /\ UNCHANGED <<objects, objectsRef, dirty, trail>>
       ELSE /\ objects' = newObjects
            /\ objectsRef' = objectsRef
            /\ dirty' = TRUE
            /\ snap' = Delivered(newObjects, "replaced")
            /\ trail' = <<>>
    /\ UNCHANGED <<rendered, history, currentIndex, isExecutingCommand, inflight, store, now, nextId, budget, maxHistorySize, order, traced>>

\* setObjects(newObjects), the snapshot listener's only call
setObjects(newObjects) ==
    /\ IF isExecutingCommand
       THEN snap' = Delivered(newObjects, "discarded") /\ UNCHANGED <<objects, objectsRef, dirty, trail>>
       ELSE IF JSONstringify(objects) = JSONstringify(newObjects)
       THEN snap' = Delivered(newObjects, "same") /\ UNCHANGED <<objects, objectsRef, dirty, trail>>
       ELSE /\ objects' = newObjects
            /\ objectsRef' = newObjects
            /\ dirty' = TRUE
            /\ snap' = Delivered(newObjects, "replaced")
            /\ trail' = <<>>
    /\ UNCHANGED <<rendered, history, currentIndex, isExecutingCommand, inflight, store, now, nextId, budget, maxHistorySize, order, traced>>

\* A render is scheduled as soon as the state cell receives a new array and
\* runs before any store event is handled: only calls of the task that
\* changed the cell come before it.
Rendered == ~dirty

\* The listener of onSnapshot.
onSnapshot ==
    /\ Rendered
    /\ setObjects(Snapshot(store))

\* undo without `if (isExecutingCommandRef.current) return`
undo_IgnoresFlag ==
    /\ canUndo
    /\ budget.intents > 0
    /\ Spend("intents")
    /\ Start(history[currentIndex + 1], "undo", "undo", now)
    /\ IF inflight' = inflight
       THEN currentIndex' = currentIndex - 1 /\ isExecutingCommand' = FALSE
       ELSE currentIndex' = currentIndex /\ isExecutingCommand' = TRUE
    /\ UNCHANGED <<rendered, history, store, nextId, maxHistorySize, order, traced>>
    /\ snap' = NoSnap

undo ==
    /\ ~isExecutingCommand
    /\ canUndo
    /\ budget.intents > 0
    /\ Spend("intents")
    /\ Start(history[currentIndex + 1], "undo", "undo", now)
    /\ IF inflight' = inflight
       THEN currentIndex' = currentIndex - 1 /\ isExecutingCommand' = FALSE
       ELSE currentIndex' = currentIndex /\ isExecutingCommand' = TRUE
    /\ UNCHANGED <<rendered, history, store, nextId, maxHistorySize, order, traced>>
    /\ snap' = NoSnap

redo ==
    /\ ~isExecutingCommand
    /\ canRedo
    /\ budget.intents > 0
    /\ Spend("intents")
    /\ currentIndex' = currentIndex + 1
    /\ Start(history[currentIndex + 2], "execute", "redo", now)
    /\ isExecutingCommand' = (inflight' # inflight)
    /\ UNCHANGED <<rendered, history, store, nextId, maxHistorySize, order, traced>>
    /\ snap' = NoSnap

\* clear() without `this.currentIndex = -1`
clear_KeepsCursor ==
    /\ budget.intents > 0
    /\ Spend("intents")
    /\ history' = <<>>
    /\ currentIndex' = currentIndex
    /\ trail' = IF traced THEN Append(trail, [call |-> "clear", serial |-> 0, cmd |-> [kind |-> "clear"], index |-> currentIndex, pre |-> objects, post |-> objects, log |-> [k \in 1..Len(history) |-> history[k].serial], outcome |-> "ok"]) ELSE trail
    /\ UNCHANGED <<objects, objectsRef, rendered, dirty, isExecutingCommand, inflight, store, now, nextId, maxHistorySize, order, traced>>
    /\ snap' = NoSnap

\* CommandHistory.clear()
clear ==
    /\ budget.intents > 0
    /\ Spend("intents")
    /\ history' = <<>>
    /\ currentIndex' = -1
    /\ trail' = IF traced THEN Append(trail, [call |-> "clear", serial |-> 0, cmd |-> [kind |-> "clear"], index |-> currentIndex, pre |-> objects, post |-> objects, log |-> [k \in 1..Len(history) |-> history[k].serial], outcome |-> "ok"]) ELSE trail
    /\ UNCHANGED <<objects, objectsRef, rendered, dirty, isExecutingCommand, inflight, store, now, nextId, maxHistorySize, order, traced>>
    /\ snap' = NoSnap

\* Continue without the finally block of undo and redo
Continue_HoldsFlag(call, ok) ==
    /\ currentIndex' = IF call = "undo" /\ ok THEN currentIndex - 1 ELSE currentIndex
    /\ isExecutingCommand' = isExecutingCommand
    /\ trail' = IF traced /\ trail # <<>> THEN [trail EXCEPT ![Len(trail)].outcome = IF ok THEN "ok" ELSE "failed"] ELSE trail

\* What follows the await of the oldest store call once it settles: undo
\* decrements the cursor only after a write that succeeded, and undo and
\* redo release the flag in their finally block.
Continue(call, ok) ==
    /\ currentIndex' = IF call = "undo" /\ ok THEN currentIndex - 1 ELSE currentIndex
    /\ isExecutingCommand' = IF call = "commit" THEN isExecutingCommand ELSE FALSE
    /\ trail' = IF traced /\ trail # <<>> THEN [trail EXCEPT ![Len(trail)].outcome = IF ok THEN "ok" ELSE "failed"] ELSE trail

\* The store applies the oldest call and its promise resolves.
WriteResolves ==
    /\ Rendered
    /\ inflight # <<>>
    /\ store' = ApplyWrite(store, Head(inflight).w)
    /\ inflight' = Tail(inflight)
    /\ Continue(Head(inflight).call, TRUE)
    /\ UNCHANGED <<objects, objectsRef, rendered, dirty, history, now, nextId, budget, maxHistorySize, order, traced>>
    /\ snap' = NoSnap

\* WriteRejects that issues the refused call again
WriteRejects_Retries ==
    /\ Rendered
    /\ inflight # <<>>
    /\ budget.rejects > 0
    /\ Spend("rejects")
    /\ inflight' = Append(Tail(inflight), Head(inflight))
    /\ UNCHANGED <<objects, objectsRef, rendered, dirty, history, currentIndex, isExecutingCommand, store, now, nextId, maxHistorySize, order, traced, trail>>
    /\ snap' = NoSnap

\* WriteRejects after which executeCommand takes a command whose execute
\* failed out of the log again
WriteRejects_DropsFailedCommit ==
    /\ Rendered
    /\ inflight # <<>>
    /\ budget.rejects > 0
    /\ Spend("rejects")
    /\ inflight' = Tail(inflight)
    /\ history' = IF Head(inflight).call = "commit" /\ currentIndex >= 0 THEN [k \in 1..(Len(history) - 1) |-> IF k <= currentIndex THEN history[k] ELSE history[k + 1]] ELSE history
    /\ currentIndex' = IF Head(inflight).call = "commit" /\ currentIndex >= 0 THEN currentIndex - 1 ELSE currentIndex
    /\ isExecutingCommand' = IF Head(inflight).call = "commit" THEN isExecutingCommand ELSE FALSE
    /\ trail' = IF traced /\ trail # <<>> THEN [trail EXCEPT ![Len(trail)].outcome = "failed"] ELSE trail
    /\ UNCHANGED <<objects, objectsRef, rendered, dirty, store, now, nextId, maxHistorySize, order, traced>>
    /\ snap' = NoSnap

\* WriteRejects of an undo or redo that has no finally block: the catch
\* logs the error and the flag stays set
WriteRejects_HoldsFlag ==
    /\ Rendered
    /\ inflight # <<>>
    /\ budget.rejects > 0
    /\ Spend("rejects")
    /\ inflight' = Tail(inflight)
    /\ currentIndex' = currentIndex
    /\ isExecutingCommand' = isExecutingCommand
    /\ trail' = IF traced /\ trail # <<>> THEN [trail EXCEPT ![Len(trail)].outcome = "failed"] ELSE trail
    /\ UNCHANGED <<objects, objectsRef, rendered, dirty, history, store, now, nextId, maxHistorySize, order, traced>>
    /\ snap' = NoSnap

\* The store refuses the oldest call and its promise rejects.
WriteRejects ==
    /\ Rendered
    /\ inflight # <<>>
    /\ budget.rejects > 0
    /\ Spend("rejects")
    /\ inflight' = Tail(inflight)
    /\ Continue(Head(inflight).call, FALSE)
    /\ UNCHANGED <<objects, objectsRef, rendered, dirty, history, store, now, nextId, maxHistorySize, order, traced>>
    /\ snap' = NoSnap

\* A render: the callbacks close over the new `objects` and the effect
\* copies it into the mirror.
Render ==
    /\ dirty
    /\ rendered' = objects
    /\ objectsRef' = objects
    /\ dirty' = FALSE
    /\ UNCHANGED <<objects, history, currentIndex, isExecutingCommand, inflight, store, now, nextId, budget, maxHistorySize, order, traced, trail>>
    /\ snap' = NoSnap

\* Another client moves a document or deletes it.
RemoteWrite ==
    /\ Rendered
    /\ budget.remote > 0
    /\ Spend("remote")
    /\ \E w \in RemoteInputs : w.id \in DOMAIN store /\ store' = ApplyWrite(store, w)
    /\ UNCHANGED <<objects, objectsRef, rendered, dirty, history, currentIndex, isExecutingCommand, inflight, now, nextId, maxHistorySize, order, traced, trail>>
    /\ snap' = NoSnap

\* ----------------------------------------------------------- specification
\* The client right after construction, subscribed to a store that holds
\* two documents: intents may overlap, snapshots arrive at any time and a
\* store call may fail.  The run fits in one tick of the clock: every
\* reading of Date.now() is MaxTime.
Init ==
    /\ objects = <<>>
    /\ objectsRef = <<>>
    /\ rendered = <<>>
    /\ dirty = FALSE
    /\ history = <<>>
    /\ currentIndex = -1
    /\ isExecutingCommand = FALSE
    /\ inflight = <<>>
    /\ store = InitStore
    /\ now = MaxTime
    /\ nextId = 3
    /\ budget = [intents |-> MaxIntents, live |-> 0, remote |-> 0, rejects |-> MaxRejects]
    /\ order \in {"asc", "desc"}
    /\ snap = NoSnap
    /\ maxHistorySize = MaxCap
    /\ traced = FALSE
    /\ trail = <<>>

Next ==
    \/ \E object \in AddInputs : addObject(object)
    \/ \E u \in UpdateInputs : updateObject(u[1], u[2])
    \/ \E id \in DeleteInputs : deleteObject(id)
    \/ \E selectedIds \in GroupInputs : createGroup(selectedIds)
    \/ undo
    \/ redo
    \/ onSnapshot
    \/ WriteResolves
    \/ WriteRejects
    \/ Render

Spec == Init /\ [][Next]_vars

\* The same client next to another one that writes to the shared store,
\* with live updates: it adds, updates, deletes and undoes, MaxSyncIntents
\* times in all, within one tick of the clock.
InitSync ==
    /\ objects = <<>>
    /\ objectsRef = <<>>
    /\ rendered = <<>>
    /\ dirty = FALSE
    /\ history = <<>>
    /\ currentIndex = -1
    /\ isExecutingCommand = FALSE
    /\ inflight = <<>>
    /\ store = InitStore
    /\ now = MaxTime
    /\ nextId = 3
    /\ budget = [intents |-> MaxSyncIntents, live |-> MaxLive, remote |-> MaxRemote, rejects |-> MaxRejects]
    /\ order \in {"asc", "desc"}
    /\ snap = NoSnap
    /\ maxHistorySize = MaxCap
    /\ traced = FALSE
    /\ trail = <<>>

NextSync ==
    \/ \E object \in AddInputs : addObject(object)
    \/ \E u \in UpdateInputs : updateObject(u[1], u[2])
    \/ \E id \in DeleteInputs : deleteObject(id)
    \/ undo
    \/ onSnapshot
    \/ WriteResolves
    \/ WriteRejects
    \/ Render
    \/ \E u \in LiveInputs : updateObjectLive(u[1], u[2])
    \/ RemoteWrite

SpecSync == InitSync /\ [][NextSync]_vars

\* The command history used as its interface asks: the first snapshot has
\* been accepted and rendered, every call is awaited and rendered before the
\* next one is made, and no snapshot arrives.
InitLog ==
    /\ objects = SnapshotList(InitStore, Listing(InitStore, "asc"))
    /\ objectsRef = objects
    /\ rendered = objects
    /\ dirty = FALSE
    /\ history = <<>>
    /\ currentIndex = -1
    /\ isExecutingCommand = FALSE
    /\ inflight = <<>>
    /\ store = InitStore
    /\ now = 1
    /\ nextId = 3
    /\ budget = [intents |-> MaxLogCalls, live |-> 0, remote |-> 0, rejects |-> MaxRejects]
    /\ order = "asc"
    /\ snap = NoSnap
    /\ maxHistorySize \in 1..MaxCap
    /\ traced = TRUE
    /\ trail = <<>>

Awaited == inflight = <<>> /\ Rendered

NextLog ==
    \/ Awaited /\ \E object \in AddInputs : addObject(object)
    \/ Awaited /\ \E u \in UpdateInputs : updateObject(u[1], u[2])
    \/ Awaited /\ \E id \in DeleteInputs : deleteObject(id)
    \/ Awaited /\ \E selectedIds \in GroupInputs : createGroup(selectedIds)
    \/ Awaited /\ undo
    \/ Awaited /\ redo
    \/ Awaited /\ clear
    \/ WriteResolves
    \/ WriteRejects
    \/ Render

SpecLog == InitLog /\ [][NextLog]_vars

\* SpecSync in which a scheduled render runs, a store call in flight
\* settles and the listener receives the latest snapshot.
FairSync == SpecSync /\ WF_vars(Render) /\ WF_vars(WriteResolves) /\ WF_vars(onSnapshot)

\* The example run of the undo stack: the client adds objects, gives the
\* first a fill, and undoes and redoes, every call awaited and rendered
\* before the next one, no snapshot arriving in between.
InitRound ==
    /\ objects = SnapshotList(InitStore, Listing(InitStore, "asc"))
    /\ objectsRef = objects
    /\ rendered = objects
    /\ dirty = FALSE
    /\ history = <<>>
    /\ currentIndex = -1
    /\ isExecutingCommand = FALSE
    /\ inflight = <<>>
    /\ store = InitStore
    /\ now = 1
    /\ nextId = 3
    /\ budget = [intents |-> MaxRoundCalls, live |-> 0, remote |-> 0, rejects |-> MaxRejects]
    /\ order = "asc"
    /\ snap = NoSnap
    /\ maxHistorySize = MaxCap
    /\ traced = TRUE
    /\ trail = <<>>

NextRound ==
    \/ Awaited /\ \E object \in ShapeInputs : addObject(object)
    \/ Awaited /\ \E u \in FillInputs : updateObject(u[1], u[2])
    \/ Awaited /\ undo
    \/ Awaited /\ redo
    \/ WriteResolves
    \/ WriteRejects
    \/ Render

SpecRound == InitRound /\ [][NextRound]_vars

\* The command history with its calls awaited as in SpecLog, on a client
\* whose listener receives snapshots at any time.
InitEcho ==
    /\ objects = SnapshotList(InitStore, Listing(InitStore, "asc"))
    /\ objectsRef = objects
    /\ rendered = objects
    /\ dirty = FALSE
    /\ history = <<>>
    /\ currentIndex = -1
    /\ isExecutingCommand = FALSE
    /\ inflight = <<>>
    /\ store = InitStore
    /\ now = 1
    /\ nextId = 3
    /\ budget = [intents |-> MaxEchoCalls, live |-> 0, remote |-> 0, rejects |-> MaxRejects]
    /\ order = "asc"
    /\ snap = NoSnap
    /\ maxHistorySize = MaxCap
    /\ traced = TRUE
    /\ trail = <<>>

NextEcho ==
    \/ NextLog
    \/ onSnapshot

SpecEcho == InitEcho /\ [][NextEcho]_vars

\* removeUndefinedValues alone: one call, on an object of any shape, of a
\* client that does nothing else.  trail records the call.
removeUndefinedValuesCall ==
    /\ trail = <<>>
    /\ \E obj \in CleanInputs : trail' = <<[call |-> "removeUndefinedValues", arg |-> obj, result |-> removeUndefinedValuesDeep(obj)]>>
    /\ UNCHANGED <<objects, objectsRef, rendered, dirty, history, currentIndex, isExecutingCommand, inflight, store, now, nextId, budget, maxHistorySize, order, snap, traced>>

InitClean ==
    /\ objects = <<>>
    /\ objectsRef = <<>>
    /\ rendered = <<>>
    /\ dirty = FALSE
    /\ history = <<>>
    /\ currentIndex = -1
    /\ isExecutingCommand = FALSE
    /\ inflight = <<>>
    /\ store = InitStore
    /\ now = 1
    /\ nextId = 3
    /\ budget = [intents |-> 0, live |-> 0, remote |-> 0, rejects |-> 0]
    /\ order = "asc"
    /\ snap = NoSnap
    /\ maxHistorySize = MaxCap
    /\ traced = TRUE
    /\ trail = <<>>

NextClean == removeUndefinedValuesCall

SpecClean == InitClean /\ [][NextClean]_vars

\* The updaters alone: the execute or the undo of one add, delete or group
\* command is applied, up to MaxApplyCalls times, to a list that may or may
\* not hold the command's id, by a client that does nothing else.
updateLocalState(cmd, dir) ==
    /\ budget.intents > 0
    /\ Spend("intents")
    /\ objects' = LocalMutation(cmd, dir, objects, now)
    /\ objectsRef' = objects'
    /\ dirty' = (dirty \/ ~ReturnsPrev(cmd, dir, objects))
    /\ trail' = Append(trail, [call |-> dir, cmd |-> cmd, pre |-> objects, post |-> objects'])
    /\ UNCHANGED <<rendered, history, currentIndex, isExecutingCommand, inflight, store, now, nextId, maxHistorySize, order, snap, traced>>

InitApply ==
    /\ objects \in ApplyLists
    /\ objectsRef = objects
    /\ rendered = objects
    /\ dirty = FALSE
    /\ nextId = 4
    /\ budget = [intents |-> MaxApplyCalls, live |-> 0, remote |-> 0, rejects |-> 0]
    /\ history \in {<<c>> : c \in {AddObjectCommand(o) : o \in ApplyPool} \cup {DeleteObjectCommand(o) : o \in ApplyPool} \cup {CreateGroupCommand(o) : o \in ApplyPool}}
    /\ currentIndex = 0
    /\ isExecutingCommand = FALSE
    /\ inflight = <<>>
    /\ store = InitStore
    /\ now = 1
    /\ order = "asc"
    /\ snap = NoSnap
    /\ maxHistorySize = MaxCap
    /\ traced = TRUE
    /\ trail = <<>>

NextApply == \E dir \in {"execute", "undo"} : updateLocalState(history[1], dir)

SpecApply == InitApply /\ [][NextApply]_vars

\* An UpdateMultipleObjectsCommand alone: a caller executes and undoes the
\* one batch history holds, starting a call once the promise of the last
\* one has settled.  Entry c of trail is the c-th call: the members whose
\* undo has run, and the state of its promise.
Tagged(calls, kind, c) == [k \in 1..Len(calls) |-> [call |-> kind, of |-> c, member |-> calls[k].member, w |-> calls[k].w]]

Settled == IF trail = <<>> THEN TRUE ELSE trail[Len(trail)].outcome # "pending"

\* UpdateMultipleObjectsCommand.execute() up to the await of Promise.all
UpdateMultipleObjectsCommandExecute ==
    /\ Settled
    /\ budget.intents > 0
    /\ Spend("intents")
    /\ LET r == ExecuteEach(history[1].commands, 1, objects, now)
       IN  /\ objects' = r.objects
           /\ objectsRef' = r.objects
           /\ inflight' = inflight \o Tagged(r.calls, "execute", Len(trail) + 1)
           /\ trail' = Append(trail, [call |-> "execute", pre |-> objects, post |-> r.objects, reverted |-> <<>>, outcome |-> IF r.calls = <<>> THEN "ok" ELSE "pending"])
    /\ dirty' = TRUE
    /\ UNCHANGED <<rendered, history, currentIndex, isExecutingCommand, store, now, nextId, maxHistorySize, order, snap, traced>>

\* UpdateMultipleObjectsCommand.undo() up to its first await
UpdateMultipleObjectsCommandUndo ==
    /\ Settled
    /\ budget.intents > 0
    /\ Spend("intents")
    /\ LET r == UndoFrom(history[1].commands, Len(history[1].commands), objects, now)
       IN  /\ objects' = r.objects
           /\ objectsRef' = r.objects
           /\ inflight' = inflight \o Tagged(r.calls, "undo", Len(trail) + 1)
           /\ trail' = Append(trail, [call |-> "undo", pre |-> objects, post |-> r.objects, reverted |-> r.reverted, outcome |-> IF r.calls = <<>> THEN "ok" ELSE "pending"])
    /\ dirty' = TRUE
    /\ UNCHANGED <<rendered, history, currentIndex, isExecutingCommand, store, now, nextId, maxHistorySize, order, snap, traced>>

\* The oldest store call settles.  A call of execute: Promise.all rejects
\* with the first rejection and resolves once every member has resolved.
\* A call of undo: a rejection leaves the loop, a resolution runs the undo
\* of the member before.
BatchWriteSettles(ok) ==
    /\ inflight # <<>>
    /\ store' = IF ok THEN ApplyWrite(store, Head(inflight).w) ELSE store
    /\ LET h == Head(inflight)
           e == trail[h.of]
           others == SelectSeq(Tail(inflight), LAMBDA c : c.of = h.of)
           r == IF h.call = "undo" /\ ok
                THEN UndoFrom(history[1].commands, h.member - 1, objects, now)
                ELSE [objects |-> objects, reverted |-> <<>>, calls |-> <<>>]
           outcome == CASE e.outcome # "pending" -> e.outcome
                        [] ~ok -> "failed"
                        [] others = <<>> /\ r.calls = <<>> -> "ok"
                        [] OTHER -> "pending"
       IN  /\ objects' = r.objects
           /\ objectsRef' = IF h.call = "undo" /\ ok /\ h.member > 1 THEN r.objects ELSE objectsRef
           /\ inflight' = Tail(inflight) \o Tagged(r.calls, "undo", h.of)
           /\ trail' = [trail EXCEPT ![h.of].outcome = outcome, ![h.of].reverted = @ \o r.reverted]
    /\ UNCHANGED <<rendered, dirty, history, currentIndex, isExecutingCommand, now, nextId, maxHistorySize, order, snap, traced>>

BatchWriteResolves == BatchWriteSettles(TRUE) /\ UNCHANGED budget

BatchWriteRejects == budget.rejects > 0 /\ Spend("rejects") /\ BatchWriteSettles(FALSE)

InitBatch ==
    /\ objects = SnapshotList(InitStore, Listing(InitStore, "asc"))
    /\ objectsRef = objects
    /\ rendered = objects
    /\ dirty = FALSE
    /\ nextId = 3
    /\ budget = [intents |-> MaxBatchCalls, live |-> 0, remote |-> 0, rejects |-> MaxRejects]
    /\ history \in {<<UpdateMultipleObjectsCommand(updates)>> : updates \in BatchInputs}
    /\ currentIndex = 0
    /\ isExecutingCommand = FALSE
    /\ inflight = <<>>
    /\ store = InitStore
    /\ now = MaxTime
    /\ order = "asc"
    /\ snap = NoSnap
    /\ maxHistorySize = MaxCap
    /\ traced = TRUE
    /\ trail = <<>>

NextBatch ==
    \/ UpdateMultipleObjectsCommandExecute
    \/ UpdateMultipleObjectsCommandUndo
    \/ BatchWriteResolves
    \/ BatchWriteRejects

SpecBatch == InitBatch /\ [][NextBatch]_vars

\* createGroup alone: one call on a list of a line and a circle of any of
\* the shapes above, rendered, by a client that does nothing else.
InitGroup ==
    /\ objects \in {<<l, c>> : l \in GroupLines, c \in GroupCircles}
    /\ objectsRef = objects
    /\ rendered = objects
    /\ dirty = FALSE
    /\ history = <<>>
    /\ currentIndex = -1
    /\ isExecutingCommand = FALSE
    /\ inflight = <<>>
    /\ store = [i \in {1, 2} |-> objects[i]]
    /\ now = 1
    /\ nextId = 3
    /\ budget = [intents |-> 1, live |-> 0, remote |-> 0, rejects |-> 0]
    /\ order = "asc"
    /\ snap = NoSnap
    /\ maxHistorySize = MaxCap
    /\ traced = TRUE
    /\ trail = <<>>

NextGroup ==
    \/ \E selectedIds \in GroupInputs : createGroup(selectedIds)
    \/ WriteResolves
    \/ Render

SpecGroup == InitGroup /\ [][NextGroup]_vars

\* Updates, undos and redos of a client whose calls are awaited, whose
\* store calls may be refused and whose listener receives snapshots at any
\* time.
InitFlag ==
    /\ objects = SnapshotList(InitStore, Listing(InitStore, "asc"))
    /\ objectsRef = objects
    /\ rendered = objects
    /\ dirty = FALSE
    /\ history = <<>>
    /\ currentIndex = -1
    /\ isExecutingCommand = FALSE
    /\ inflight = <<>>
    /\ store = InitStore
    /\ now = MaxTime
    /\ nextId = 3
    /\ budget = [intents |-> MaxFlagCalls, live |-> 0, remote |-> 0, rejects |-> MaxRejects]
    /\ order = "asc"
    /\ snap = NoSnap
    /\ maxHistorySize = MaxCap
    /\ traced = TRUE
    /\ trail = <<>>

NextFlag ==
    \/ Awaited /\ \E u \in UpdateInputs : updateObject(u[1], u[2])
    \/ Awaited /\ undo
    \/ Awaited /\ redo
    \/ onSnapshot
    \/ WriteResolves
    \/ WriteRejects
    \/ Render

SpecFlag == InitFlag /\ [][NextFlag]_vars

\* SpecFlag in which a scheduled render runs and every store call settles.
FairFlag == SpecFlag /\ WF_vars(Render) /\ WF_vars(WriteResolves)

\* A drag: live updates of the rectangle's position, rendered or not, the
\* updateObject that commits the final position, and an undo, the calls on
\* the log awaited.
InitDrag ==
    /\ objects = SnapshotList(InitStore, Listing(InitStore, "asc"))
    /\ objectsRef = objects
    /\ rendered = objects
    /\ dirty = FALSE
    /\ history = <<>>
    /\ currentIndex = -1
    /\ isExecutingCommand = FALSE
    /\ inflight = <<>>
    /\ store = InitStore
    /\ now \in 1..MaxTime
    /\ nextId = 3
    /\ budget = [intents |-> 2, live |-> MaxDragLive, remote |-> 0, rejects |-> MaxRejects]
    /\ order = "asc"
    /\ snap = NoSnap
    /\ maxHistorySize = MaxCap
    /\ traced = TRUE
    /\ trail = <<>>

NextDrag ==
    \/ \E u \in DragLiveInputs : updateObjectLive(u[1], u[2])
    \/ inflight = <<>> /\ \E u \in DragInputs : updateObject(u[1], u[2])
    \/ inflight = <<>> /\ undo
    \/ WriteResolves
    \/ WriteRejects
    \/ Render

SpecDrag == InitDrag /\ [][NextDrag]_vars

\* ------------------------------------------------------------------ claims
\* Entry i of trail is a call of `kind` whose store call succeeded.
Done(i, kind) == trail[i].call = kind /\ trail[i].outcome = "ok"

\* The last 2n entries of trail are n commits, the first on a log with
\* nothing to undo, followed by n undos, every store call succeeding.
EndsCommitsUndos(n) ==
    /\ Len(trail) >= 2 * n
    /\ LET s == Len(trail) - 2 * n
       IN  /\ trail[s + 1].index = -1
           /\ \A k \in 1..n : Done(s + k, "commit") /\ Done(s + n + k, "undo")

\* The commands after the cursor when the call of entry e was made.
Redoable(e) == {e.log[k] : k \in (e.index + 2)..Len(e.log)}

\* The call of entry e is a commit on a log that holds maxHistorySize
\* commands up to the cursor.
CommitOnFullLog(e) == e.call = "commit" /\ e.index + 1 = maxHistorySize

Serials(h) == [k \in 1..Len(h) |-> h[k].serial]

\* The list without the properties that hold undefined.
Content(list) == [i \in DOMAIN list |-> removeUndefinedValues(list[i])]

\* C1: a snapshot delivered while an operation is in flight (its store
\* call has not settled) is discarded: the local list stays as it was.
C1_SnapshotInFlightDiscarded == snap.result # "none" /\ snap.busy => snap.result = "discarded" /\ objects = snap.before

\* C2: while a store call is in flight, an intent of the same client
\* changes neither the local list nor the log nor its cursor, and issues no
\* store call.
C2_IntentInFlightIsNoOp == [][inflight # <<>> /\ budget'.intents < budget.intents => objects' = objects /\ history' = history /\ currentIndex' = currentIndex /\ inflight' = inflight]_vars

\* C3: a commit followed immediately by its undo, both store calls
\* succeeding, leaves the local list equal to its value before the commit:
\* the same objects in the same order with the same value for every field.
C3_ExecuteUndoRestores ==
    \A i \in 1..(Len(trail) - 1) :
        Done(i, "commit") /\ Done(i + 1, "undo") /\ trail[i + 1].serial = trail[i].serial => trail[i + 1].post = trail[i].pre

\* C4: after n commits followed by n undos, every store call succeeding,
\* the local list equals its value before the first commit and canUndo() is
\* false.
C4_CommitsUndosRestore ==
    \A n \in 1..MaxLogCalls :
        EndsCommitsUndos(n) => objects = trail[Len(trail) - 2 * n + 1].pre /\ ~canUndo

\* C5: an undo followed by the redo of the same command, both store calls
\* succeeding, leaves the local list equal to its value right after the
\* command's commit, field by field.
C5_UndoRedoReproducesCommit ==
    \A i \in 1..Len(trail) : \A j \in (i + 1)..(Len(trail) - 1) :
        /\ Done(i, "commit")
        /\ Done(j, "undo") /\ trail[j].serial = trail[i].serial
        /\ Done(j + 1, "redo") /\ trail[j + 1].serial = trail[i].serial
        => trail[j + 1].post = trail[i].post

\* C6: a commit removes every command after the cursor before it appends:
\* none of them is in the log afterwards, canRedo() is false from the commit
\* until the next undo, and no later redo executes one of them.
C6_CommitDiscardsRedoable ==
    \A i \in 1..Len(trail) :
        trail[i].call = "commit" =>
            /\ (\A j \in (i + 1)..Len(trail) : trail[j].call # "undo") => ~canRedo
            /\ \A k \in 1..Len(history) : history[k].serial \notin Redoable(trail[i])
            /\ \A j \in (i + 1)..Len(trail) : trail[j].call = "redo" => trail[j].serial \notin Redoable(trail[i])

\* A commit after an undo has dropped the undone command and kept an older one.
C6_Witness ==
    /\ Awaited
    /\ trail # <<>>
    /\ Done(Len(trail), "commit")
    /\ Redoable(trail[Len(trail)]) # {}
    /\ Len(history) = 2

\* C7: the log never holds more than maxHistorySize commands; a commit on
\* a full log drops the oldest command and leaves the cursor on the new
\* one, and no later undo reverts the dropped command.
C7_CapAndEviction ==
    /\ Len(history) <= maxHistorySize
    /\ \A i \in 1..Len(trail) :
          CommitOnFullLog(trail[i]) =>
              /\ \A k \in 1..Len(history) : history[k].serial # trail[i].log[1]
              /\ \A j \in (i + 1)..Len(trail) : trail[j].call = "undo" => trail[j].serial # trail[i].log[1]
              /\ i = Len(trail) => Serials(history) = Append(Tail(trail[i].log), trail[i].serial) /\ currentIndex = maxHistorySize - 1

\* After an eviction every command left in the log has been undone, and
\* nothing is left to undo although the evicted command was never reverted.
C7_Witness ==
    /\ Awaited
    /\ \E i \in 1..Len(trail) : CommitOnFullLog(trail[i])
    /\ Done(Len(trail), "undo")
    /\ history # <<>>
    /\ ~canUndo

\* C8: the cursor of the log satisfies -1 <= currentIndex < length,
\* whatever calls were made and whether or not their store calls succeeded.
C8_CursorInRange == -1 <= currentIndex /\ currentIndex < Len(history)

\* An undo whose store call failed has left the cursor on its command,
\* after a clear.
C8_Witness ==
    /\ Awaited
    /\ trail # <<>>
    /\ trail[Len(trail)].call = "undo"
    /\ trail[Len(trail)].outcome = "failed"
    /\ currentIndex = trail[Len(trail)].index
    /\ \E i \in 1..Len(trail) : trail[i].call = "clear"

C10_DifferentSnapshotReplaces == snap.result # "none" /\ ~snap.busy /\ Content(snap.got) # Content(snap.before) => objects = snap.got /\ objectsRef = snap.got

\* A snapshot has just replaced a local list that held an object the store
\* refused: the object is gone.
C10_Witness ==
    /\ snap.result = "replaced"
    /\ ~snap.busy
    /\ Has(snap.before, 3)
    /\ ~Has(objects, 3)
    /\ objects = snap.got

\* C11: the step that processes a snapshot, discarded or accepted, leaves
\* the log, its cursor, canUndo() and canRedo() as they were and issues no
\* store call: the calls in flight and the shared store are unchanged.
C11_SnapshotLeavesLogAndStore ==
    [][snap'.result # "none" =>
          /\ history' = history
          /\ currentIndex' = currentIndex
          /\ canUndo' = canUndo
          /\ canRedo' = canRedo
          /\ inflight' = inflight
          /\ store' = store]_vars

\* A snapshot has just replaced the list of a client that has an undone
\* command to redo and a store call in flight.
C11_Witness ==
    /\ snap.result = "replaced"
    /\ canRedo
    /\ inflight # <<>>

\* Entries i and i + 1 of trail are the commit of an add and the commit of an
\* update of the added object's fill, both store calls succeeding.
AddThenFill(i) ==
    /\ i + 1 <= Len(trail)
    /\ Done(i, "commit") /\ trail[i].cmd.kind = "add"
    /\ Done(i + 1, "commit") /\ trail[i + 1].cmd.kind = "update"
    /\ trail[i + 1].cmd.objectId = trail[i].cmd.objectId
    /\ "fill" \in DOMAIN trail[i + 1].cmd.updates

\* C12: from a list without object A, after add A, update of A's fill and
\* two undos, A is absent from the list; after two redos more, A is present
\* with the updated fill.
C12_AddFillUndoUndoRedoRedo ==
    \A i \in 1..Len(trail) :
        AddThenFill(i) /\ ~Has(trail[i].pre, trail[i].cmd.objectId) /\ i + 3 <= Len(trail) /\ Done(i + 2, "undo") /\ Done(i + 3, "undo") =>
            /\ ~Has(trail[i + 3].post, trail[i].cmd.objectId)
            /\ i + 5 <= Len(trail) /\ Done(i + 4, "redo") /\ Done(i + 5, "redo") =>
                  /\ Has(trail[i + 5].post, trail[i].cmd.objectId)
                  /\ Get(Find(trail[i + 5].post, trail[i].cmd.objectId), "fill") = trail[i + 1].cmd.updates.fill
                  /\ i + 5 = Len(trail) => objects = trail[i + 5].post

\* The six calls have been made on an object added without a fill.
C12_Witness ==
    /\ Awaited
    /\ Len(trail) = 6
    /\ AddThenFill(1)
    /\ \A k \in 3..4 : Done(k, "undo")
    /\ \A k \in 5..6 : Done(k, "redo")
    /\ "fill" \notin DOMAIN trail[1].cmd.object
    /\ Has(objects, 3)

\* The field f of an undone update still holds, in the list, the value the
\* update gave it and did not find there.
Returned(cmd, f, list) ==
    /\ Has(list, cmd.objectId)
    /\ cmd.updates[f] # cmd.previousState[f]
    /\ Get(Find(list, cmd.objectId), f) = cmd.updates[f]

\* C13: no other client writing, a snapshot accepted after the last call,
\* an undo, has settled does not bring back the effect of the undone
\* command: the object of an undone add or group is not in the list, and no
\* field of an undone update holds the updated value.
C13_SnapshotKeepsUndone ==
    [][snap'.result \in {"same", "replaced"} /\ ~snap'.busy /\ trail # <<>> /\ Done(Len(trail), "undo") =>
          LET cmd == trail[Len(trail)].cmd
          IN  /\ cmd.kind \in {"add", "group"} => ~Has(objects', cmd.objectId)
              /\ cmd.kind = "update" => \A f \in DOMAIN cmd.updates : ~Returned(cmd, f, objects')]_vars

\* The list holds what the shared store holds: the same documents in the
\* order of a snapshot, with the same value for every defined property.
Consistent == Content(objects) = Content(Snapshot(store))

Members(e) == SelectSeq(e.pre, LAMBDA o : idOf(o) \in e.cmd.object.groupedObjects[1])

\* Twice the extent of object o along an axis: a circle extends by its
\* width on both axes, every other type by its width on x, its height on y.
TwiceLow(o, axis) == 2 * Num(o, axis) - Num(o, IF axis = "x" \/ o.type = <<"circle">> THEN "width" ELSE "height")

TwiceHigh(o, axis) == 2 * Num(o, axis) + Num(o, IF axis = "x" \/ o.type = <<"circle">> THEN "width" ELSE "height")

\* The group g is the box around the extents of the objects m along the
\* axis, padded by 20 on both sides: `size` names its size on that axis.
PaddedUnion(g, m, axis, size) ==
    LET low == Min({TwiceLow(m[k], axis) : k \in 1..Len(m)}) - 2 * 20
        high == Max({TwiceHigh(m[k], axis) : k \in 1..Len(m)}) + 2 * 20
    IN  2 * Num(g, size) = high - low /\ 4 * Num(g, axis) = low + high

\* C15: the group createGroup commits for members that are in the list,
\* none of them a line, is the union of the members' extents padded by 20 on
\* every side, x and y its centre, width and height its size; for the
\* rectangle 100x100 at (0, 0) and the circle of width 100 at (200, 0) it is
\* centred at (100, 0), 340 wide and 140 high.
C15_GroupGeometry ==
    \A i \in 1..Len(trail) :
        trail[i].call = "commit" /\ trail[i].cmd.kind = "group" =>
            LET g == trail[i].cmd.object
                m == Members(trail[i])
            IN  /\ Len(m) > 0 /\ (\A k \in 1..Len(m) : m[k].type # <<"line">>) => PaddedUnion(g, m, "x", "width") /\ PaddedUnion(g, m, "y", "height")
                /\ m = <<InitStore[1], InitStore[2]>> => g.x = <<100>> /\ g.y = <<0>> /\ g.width = <<340>> /\ g.height = <<140>>

\* The rectangle and the circle of the example have been grouped.
C15_Witness ==
    /\ trail # <<>>
    /\ Done(Len(trail), "commit")
    /\ trail[Len(trail)].cmd.kind = "group"
    /\ Members(trail[Len(trail)]) = <<InitStore[1], InitStore[2]>>
    /\ Has(objects, trail[Len(trail)].cmd.objectId)

\* The step is an intent that constructs a command and commits it: the log
\* holds, at the cursor, a command it did not hold.
Commits == budget'.intents < budget.intents /\ currentIndex' >= 0 /\ \A k \in 1..Len(history) : history[k].serial # history'[currentIndex' + 1].serial

\* C16: an updateObject or deleteObject naming an id that is not in the
\* list, and a createGroup with fewer than two selected ids, commits
\* nothing: every command an intent commits is an update or a delete of an
\* object in the list, a group of two ids or more, or an add.
C16_AbsentIdRejected ==
    [][Commits =>
          LET cmd == history'[currentIndex' + 1]
          IN  /\ cmd.kind \in {"update", "delete"} => Has(objects, cmd.objectId)
              /\ cmd.kind = "group" => Cardinality(cmd.object.groupedObjects[1]) >= 2]_vars

\* C17: undo() invokes a command only when the cursor is not -1 and redo()
\* only when the cursor is not on the last entry; a call that invoked one
\* has, once settled, moved the cursor by exactly one, down for undo and up
\* for redo, and returned true.
C17_UndoRedoMoveCursor ==
    Awaited /\ trail # <<>> =>
        LET e == trail[Len(trail)]
        IN  /\ e.call = "undo" => e.index >= 0 /\ currentIndex = e.index - 1 /\ e.outcome = "ok"
            /\ e.call = "redo" => e.index < Len(e.log) - 1 /\ currentIndex = e.index + 1 /\ e.outcome = "ok"

\* C18: when the store call of an intent fails, the local mutation stays
\* (the list and the mirror are as before the failure), the call is not
\* issued again and nothing reaches the store, the log is untouched, and
\* unless another undo or redo is still in flight the client accepts
\* intents: the flag is released.
C18_FailedWriteKeepsLocal ==
    [][budget'.rejects < budget.rejects =>
          /\ objects' = objects
          /\ objectsRef' = objectsRef
          /\ inflight' = Tail(inflight)
          /\ store' = store
          /\ history' = history
          /\ (\A k \in 1..Len(inflight') : inflight'[k].call = "commit") => ~isExecutingCommand']_vars

\* The store has refused the deleteDoc of an undone add: the object is gone
\* from the list and still in the store, and the client is free.
C18_Witness ==
    /\ budget.rejects = 0
    /\ inflight = <<>>
    /\ ~isExecutingCommand
    /\ canUndo
    /\ history[currentIndex + 1].kind = "add"
    /\ ~Has(objects, history[currentIndex + 1].objectId)
    /\ history[currentIndex + 1].objectId \in DOMAIN store
    /\ budget.intents > 0

\* The list `after` is the list `before` with the fields of patch written
\* into the object named id and nothing else changed.
OnlyPatched(before, after, id, patch) ==
    /\ Len(after) = Len(before)
    /\ \A i \in 1..Len(before) :
          IF idOf(before[i]) # id
          THEN after[i] = before[i]
          ELSE /\ DOMAIN after[i] = DOMAIN before[i] \cup DOMAIN patch
               /\ \A k \in DOMAIN after[i] : after[i][k] = IF k \in DOMAIN patch THEN patch[k] ELSE before[i][k]

\* C19: updateObjectLive(id, patch) writes the patched fields of the named
\* object in the list and nothing else: no store call is issued and the store
\* is untouched, the log, its cursor, canUndo() and canRedo() are unchanged,
\* and the list is unchanged when it does not hold the id.
C19_LiveUpdateIsLocal ==
    [][budget'.live < budget.live =>
          /\ \E u \in LiveInputs : OnlyPatched(objects, objects', u[1], u[2]) /\ (~Has(objects, u[1]) => objects' = objects)
          /\ inflight' = inflight
          /\ store' = store
          /\ history' = history
          /\ currentIndex' = currentIndex
          /\ canUndo' = canUndo
          /\ canRedo' = canRedo]_vars

\* A live update has moved the rectangle of a client that has a command to
\* undo: the store still has the rectangle where it was.
C19_Witness ==
    /\ budget.live = 0
    /\ Has(objects, 1)
    /\ Find(objects, 1).x = <<50>>
    /\ 1 \in DOMAIN store
    /\ store[1].x # <<50>>
    /\ canUndo
    /\ dirty

\* C20: the commands are in the log in the order their intents were
\* issued, and an intent starts the execute or undo of a command only when
\* the store call of every earlier intent has settled.
C20_IntentsDoNotInterleave ==
    [][/\ \A i, j \in 1..Len(history') : i < j => history'[i].serial < history'[j].serial
       /\ budget'.intents < budget.intents => inflight = <<>>]_vars

\* The step settles the oldest store call, a merge write, with success.
MergeResolves == inflight # <<>> /\ inflight' = Tail(inflight) /\ budget'.rejects = budget.rejects /\ Head(inflight).w.op = "merge"

\* C21: a field update that reaches the shared store creates no record: when
\* the store holds no document of that id, it holds none afterwards.
C21_MergeCreatesNoRecord ==
    [][MergeResolves /\ Head(inflight).w.id \notin DOMAIN store => Head(inflight).w.id \notin DOMAIN store']_vars

\* The value holds undefined somewhere: as an item of an array or as a
\* property of an object, at any depth.
RECURSIVE HoldsUndefined(_)
HoldsUndefined(v) ==
    CASE v.t = "undefined" -> TRUE
      [] v.t = "array" -> \E i \in DOMAIN v.items : HoldsUndefined(v.items[i])
      [] v.t = "object" -> \E k \in DOMAIN v.fields : HoldsUndefined(v.fields[k])
      [] OTHER -> FALSE

\* The value w is the value v with every present value in its place: the
\* same type, the same number, the items in the same positions, and every
\* property of v that is not undefined.
RECURSIVE KeepsPresent(_, _)
KeepsPresent(v, w) ==
    CASE v.t = "array" -> w.t = "array" /\ DOMAIN w.items = DOMAIN v.items /\ \A i \in DOMAIN v.items : KeepsPresent(v.items[i], w.items[i])
      [] v.t = "object" -> /\ w.t = "object"
                           /\ DOMAIN w.fields \subseteq DOMAIN v.fields
                           /\ \A k \in DOMAIN v.fields : v.fields[k] # JSUndefined => k \in DOMAIN w.fields /\ KeepsPresent(v.fields[k], w.fields[k])
      [] OTHER -> w = v

\* C22: the record removeUndefinedValues returns for a store write holds
\* undefined nowhere, at any depth of objects and arrays, has every present
\* value (null included) where it was, and is unchanged by a second pass.
C22_WrittenRecordHasNoUndefined ==
    \A i \in 1..Len(trail) :
        /\ ~HoldsUndefined(trail[i].result)
        /\ KeepsPresent(trail[i].arg, trail[i].result)
        /\ removeUndefinedValuesDeep(trail[i].result) = trail[i].result

\* C23: every execute or undo that changes an object of the list leaves it
\* with a lastModified strictly greater than the one it had.
C23_LastModifiedIncreases ==
    \A i \in 1..Len(trail) :
        trail[i].call \in {"commit", "undo", "redo"} =>
            \A k \in 1..Len(trail[i].post) :
                LET after == trail[i].post[k]
                IN  Has(trail[i].pre, idOf(after)) /\ Find(trail[i].pre, idOf(after)) # after =>
                        Num(after, "lastModified") > Num(Find(trail[i].pre, idOf(after)), "lastModified")

\* C24: the list equal to the store, this client commits one command and
\* its store call succeeds; the snapshot delivered next, which holds the
\* store after that write and no other change, is found identical to the
\* list and replaces nothing.
C24_EchoIsDiscarded ==
    [][snap'.result # "none" /\ ~snap'.busy /\ Len(trail) = 1 /\ Done(1, "commit") => snap'.result = "same" /\ objects' = objects]_vars

\* The step leaves the list as it was but for the properties `names` and
\* lastModified of the object named id.
LocalFrame(id, names) ==
    /\ Len(objects') = Len(objects)
    /\ \A i \in 1..Len(objects) :
          IF idOf(objects[i]) # id
          THEN objects'[i] = objects[i]
          ELSE \A k \in (DOMAIN objects[i] \cup DOMAIN objects'[i]) \ (names \cup {"lastModified"}) : Get(objects'[i], k) = Get(objects[i], k)

\* The step leaves the store as it was but for the properties `names` and
\* lastModified of the document named id.
StoreFrame(id, names) ==
    /\ DOMAIN store' = DOMAIN store
    /\ \A j \in DOMAIN store :
          IF j # id
          THEN store'[j] = store[j]
          ELSE \A k \in (DOMAIN store[j] \cup DOMAIN store'[j]) \ (names \cup {"lastModified"}) : Get(store'[j], k) = Get(store[j], k)

\* C25: the execute and the undo of an update change, in the list and in
\* the store, only the properties named in the payload and lastModified, of
\* the one object: every other property and every other object stay as they
\* were, also when another client has changed one of them in the store.
C25_UpdateTouchesOnlyPayload ==
    [][/\ Commits /\ history'[currentIndex' + 1].kind = "update" => LocalFrame(history'[currentIndex' + 1].objectId, DOMAIN history'[currentIndex' + 1].updates)
       /\ budget'.intents < budget.intents /\ history' = history /\ history[currentIndex + 1].kind = "update" => LocalFrame(history[currentIndex + 1].objectId, DOMAIN history[currentIndex + 1].updates)
       /\ MergeResolves /\ Head(inflight).w.id \in DOMAIN store => StoreFrame(Head(inflight).w.id, Head(inflight).w.names)]_vars

\* The list ref shows the local mutation of cmd.execute() or cmd.undo()
\* made on the list pre: the added object, the absence of the removed one,
\* the values of the update.
Sees(ref, cmd, dir, pre) ==
    CASE cmd.kind \in {"add", "group"} /\ dir = "execute" -> Has(ref, cmd.objectId) /\ (~Has(pre, cmd.objectId) => Find(ref, cmd.objectId) = cmd.object)
      [] cmd.kind \in {"add", "group"} /\ dir = "undo" -> ~Has(ref, cmd.objectId)
      [] cmd.kind = "delete" /\ dir = "execute" -> ~Has(ref, cmd.objectId)
      [] cmd.kind = "delete" /\ dir = "undo" -> Has(ref, cmd.objectId) /\ (~Has(pre, cmd.objectId) => Find(ref, cmd.objectId) = cmd.object)
      [] cmd.kind = "update" -> Has(pre, cmd.objectId) =>
            /\ Has(ref, cmd.objectId)
            /\ LET fields == IF dir = "execute" THEN cmd.updates ELSE cmd.previousState
               IN  \A k \in DOMAIN fields : Get(Find(ref, cmd.objectId), k) = fields[k]

Executes == budget'.intents < budget.intents /\ history' # <<>>

\* C27: every execute and every undo of an add, a delete, an update or a
\* group command issues exactly one store call after its local mutation.
C27_OneStoreCallPerExecute == [][Executes => Len(inflight') = Len(inflight) + 1]_vars

\* The call of entry e puts the command's object into the list: the execute
\* of an add or a group, the undo of a delete.
Puts(e) == IF e.cmd.kind = "delete" THEN e.call = "undo" ELSE e.call = "execute"

\* C28: the execute of an add or a group, and the undo of a delete, on a
\* list that holds the id leave the list as it was; the execute of a
\* delete, and the undo of an add or a group, on a list without the id
\* leave it as it was; and the same call made a second time changes
\* nothing.
C28_LocalApplicationIdempotent ==
    \A i \in 1..Len(trail) :
        /\ Puts(trail[i]) = Has(trail[i].pre, trail[i].cmd.objectId) => trail[i].post = trail[i].pre
        /\ i > 1 /\ trail[i - 1].call = trail[i].call => trail[i].post = trail[i].pre

C28_Witness ==
    /\ Len(trail) = 2
    /\ trail[1].cmd.kind = "add"
    /\ trail[1].call = "execute"
    /\ trail[2].call = "execute"
    /\ Has(trail[1].pre, trail[1].cmd.objectId)
    /\ Find(trail[1].pre, trail[1].cmd.objectId) # trail[1].cmd.object

\* The list shows every update of the batch: each property has the value of
\* the last member that names it.
AllApplied(list, commands) ==
    \A i \in DOMAIN commands : \A k \in DOMAIN commands[i].updates :
        (\A j \in DOMAIN commands : j > i /\ commands[j].objectId = commands[i].objectId => k \notin DOMAIN commands[j].updates)
            => Get(Find(list, commands[i].objectId), k) = commands[i].updates[k]

\* The store calls of the c-th call of the batch that are in flight.
Open(c) == SelectSeq(inflight, LAMBDA call : call.of = c)

\* The undo of entry c has reverted the last member first and one member at
\* a time: at most one of its store calls is in flight, none once it has
\* settled, and it has reverted every member when it resolves.
UndoInOrder(c) ==
    LET n == Len(history[1].commands)
    IN  /\ trail[c].reverted = [k \in 1..Len(trail[c].reverted) |-> n - k + 1]
        /\ Len(Open(c)) <= 1
        /\ trail[c].outcome # "pending" => Open(c) = <<>>
        /\ trail[c].outcome = "ok" => Len(trail[c].reverted) = n

\* C29: the execute of a batch of n updates makes its n local mutations
\* and issues its n store calls before any of them settles, and settles only
\* when all of them have settled; its undo reverts the last member first,
\* starts the undo of a member only when the store call of the one after it
\* has settled, and stops at the first member whose store call fails,
\* leaving the members before it as they are.
C29_BatchExecutesTogetherUndoesInTurn ==
    [][/\ Len(trail') > Len(trail) /\ trail'[Len(trail')].call = "execute" =>
            /\ AllApplied(objects', history[1].commands)
            /\ Len(inflight') = Len(inflight) + Len(history[1].commands)
       /\ \A c \in 1..Len(trail) :
            /\ trail[c].call = "execute" /\ trail[c].outcome = "pending" /\ trail'[c].outcome # "pending" => \A k \in 1..Len(inflight') : inflight'[k].of # c
            /\ trail[c].call = "undo" /\ trail[c].outcome = "failed" => trail'[c] = trail[c]
       /\ \A c \in 1..Len(trail') : trail'[c].call = "undo" => UndoInOrder(c)']_vars

\* C30: the execute and the undo of a group command add and remove the
\* group object and nothing else: every other object, the grouped ones
\* among them, keeps its place and all its values in the list and in the
\* store, and the undo of a group just committed leaves the list as it was
\* before the commit.
C30_GroupTouchesOnlyGroupObject ==
    [][/\ \A i \in 1..Len(trail') : trail'[i].cmd.kind = "group" => Without(trail'[i].post, trail'[i].cmd.objectId) = Without(trail'[i].pre, trail'[i].cmd.objectId)
       /\ \A i \in 2..Len(trail') : trail'[i].cmd.kind = "group" /\ trail'[i].call = "undo" /\ trail'[i - 1].call = "commit" /\ trail'[i - 1].cmd = trail'[i].cmd => trail'[i].post = trail'[i - 1].pre
       /\ inflight # <<>> /\ inflight' = Tail(inflight) /\ trail[Len(trail)].cmd.kind = "group" =>
            \A j \in (DOMAIN store \cup DOMAIN store') \ {trail[Len(trail)].cmd.objectId} : j \in DOMAIN store /\ j \in DOMAIN store' /\ store'[j] = store[j]]_vars

C30_Witness ==
    \E i \in 2..Len(trail) :
        /\ trail[i].cmd.kind = "group"
        /\ Done(i, "undo")
        /\ Done(i - 1, "commit")
        /\ trail[i - 1].cmd = trail[i].cmd
        /\ Len(Members(trail[i - 1])) >= 2
        /\ trail[i].cmd.objectId \notin DOMAIN store
        /\ \A k \in 1..Len(trail[i].pre) : idOf(trail[i].pre[k]) \in trail[i].cmd.object.groupedObjects[1] => Has(objects, idOf(trail[i].pre[k]))

\* The z-order of an object, 0 when it has none.
ZOrder(o) == IF Get(o, "zIndex") = Undefined THEN 0 ELSE Num(o, "zIndex")

\* C31: the zIndex of the group object createGroup builds is one more than
\* the largest zIndex of the selected objects, an object without zIndex
\* counting as 0, and so above the zIndex of each of them.
C31_GroupAboveMembers ==
    \A i \in 1..Len(trail) :
        trail[i].call = "commit" /\ trail[i].cmd.kind = "group" /\ Len(Members(trail[i])) > 0 =>
            LET g == trail[i].cmd.object
                m == Members(trail[i])
            IN  /\ Num(g, "zIndex") = Max({ZOrder(m[k]) : k \in 1..Len(m)}) + 1
                /\ \A k \in 1..Len(m) : Num(g, "zIndex") > ZOrder(m[k])

C31_Witness ==
    /\ trail # <<>>
    /\ Done(Len(trail), "commit")
    /\ trail[Len(trail)].cmd.kind = "group"
    /\ Len(Members(trail[Len(trail)])) = 2
    /\ Get(Members(trail[Len(trail)])[1], "zIndex") = Undefined
    /\ ZOrder(Members(trail[Len(trail)])[2]) = -1
    /\ trail[Len(trail)].cmd.object.zIndex = <<1>>

\* Twice the low and the high side of the box of group g along an axis
\* with the padding taken off.
TwiceBoxLow(g, axis, size) == 2 * Num(g, axis) - Num(g, size) + 2 * padding

TwiceBoxHigh(g, axis, size) == 2 * Num(g, axis) + Num(g, size) - 2 * padding

\* The unpadded box of g holds, along the axis, both endpoints of line o.
HoldsEndpoints(g, o, axis, other, size) ==
    \A v \in {Num(o, axis)} \cup (IF Get(o, other) = Undefined THEN {} ELSE {Num(o, other)}) :
        TwiceBoxLow(g, axis, size) <= 2 * v /\ 2 * v <= TwiceBoxHigh(g, axis, size)

\* C33: the box createGroup computes, before padding, holds both endpoints
\* (x, y) and (x2, y2) of every selected line, whatever x2 and y2 are, zero
\* and negative values included.
C33_LineExtentSpansEndpoints ==
    \A i \in 1..Len(trail) :
        trail[i].call = "commit" /\ trail[i].cmd.kind = "group" =>
            LET g == trail[i].cmd.object
                m == Members(trail[i])
            IN  \A k \in 1..Len(m) : m[k].type = <<"line">> => HoldsEndpoints(g, m[k], "x", "x2", "width") /\ HoldsEndpoints(g, m[k], "y", "y2", "height")

\* C32: a createGroup whose selection names an id the list does not hold
\* is rejected: every group command committed to the log, added to the
\* list or written to the store selects only objects of the list.
C32_GroupOfAbsentIdRejected ==
    [][Commits /\ history'[currentIndex' + 1].kind = "group" =>
          \A id \in history'[currentIndex' + 1].object.groupedObjects[1] : Has(objects, id)]_vars

\* The log after a commit of cmd: the commands up to the cursor, then cmd,
\* without the oldest when that is more than maxHistorySize.
Logged(cmd) ==
    LET pushed == Append(SubSeq(history, 1, currentIndex + 1), cmd)
    IN  IF Len(pushed) > maxHistorySize THEN Tail(pushed) ELSE pushed

\* C34: a commit truncates the log after the cursor, appends the command,
\* moves the cursor onto it and evicts over the cap before execute() runs;
\* it returns only when execute() has settled and fails when execute()
\* fails; and the command whose execute() failed stays in the log at the
\* cursor, so that canUndo() holds and the next undo() runs its undo().
C34_CommitLogsBeforeExecute ==
    [][/\ Commits => history' = Logged(history'[currentIndex' + 1]) /\ currentIndex' = Len(history') - 1 /\ trail'[Len(trail')].serial = history'[currentIndex' + 1].serial
       /\ \A i \in 1..Len(trail') : trail'[i].call = "commit" => (trail'[i].outcome = "pending" <=> i = Len(trail') /\ inflight' # <<>>)
       /\ inflight # <<>> /\ Head(inflight).call = "commit" /\ budget'.rejects < budget.rejects =>
            /\ trail'[Len(trail')].outcome = "failed"
            /\ history' = history /\ currentIndex' = currentIndex
            /\ currentIndex' >= 0 /\ history'[currentIndex' + 1].serial = trail[Len(trail)].serial
       /\ Len(trail') > Len(trail) /\ trail # <<>> /\ trail[Len(trail)].call = "commit" /\ trail[Len(trail)].outcome = "failed" /\ trail'[Len(trail')].call = "undo" =>
            trail'[Len(trail')].serial = trail[Len(trail)].serial]_vars

C34_Witness ==
    /\ Len(trail) >= 2
    /\ trail[Len(trail) - 1].call = "commit"
    /\ trail[Len(trail) - 1].outcome = "failed"
    /\ trail[Len(trail) - 1].index >= 0
    /\ Done(Len(trail), "undo")
    /\ trail[Len(trail)].serial = trail[Len(trail) - 1].serial

\* C35: the previousState of the command updateObject builds holds, for
\* every property of the updates, the value the object has in the list when
\* updateObject is called, also right after another intent has changed it.
C35_InverseFromCurrentList ==
    [][Commits /\ history'[currentIndex' + 1].kind = "update" /\ Has(objects, history'[currentIndex' + 1].objectId) =>
          LET cmd == history'[currentIndex' + 1]
          IN  \A k \in DOMAIN cmd.updates : cmd.previousState[k] = Get(Find(objects, cmd.objectId), k)]_vars

\* The store call of an undo or a redo is in flight.
UndoRedoInFlight == \E k \in 1..Len(inflight) : inflight[k].call \in {"undo", "redo"}

\* C36: from the local mutation of an undo or a redo until its store call
\* has settled, isExecutingCommandRef is set, a snapshot that arrives is
\* dropped and leaves the list and its mirror alone, and no second undo or
\* redo runs: an intent made meanwhile is not an undo or a redo.
C36_FlagCoversUndoRedo ==
    [][/\ UndoRedoInFlight' => isExecutingCommand'
       /\ UndoRedoInFlight =>
            /\ isExecutingCommand
            /\ snap'.result # "none" => snap'.result = "discarded" /\ objects' = objects /\ objectsRef' = objectsRef
            /\ budget'.intents < budget.intents => Commits /\ Len(inflight') = Len(inflight) + 1 /\ inflight'[Len(inflight')].call = "commit"]_vars

C36_Witness ==
    /\ UndoRedoInFlight
    /\ snap.result = "discarded"
    /\ JSONstringify(snap.got) # JSONstringify(snap.before)
    /\ objects = snap.before

\* C37: isExecutingCommandRef is set only while the store call of an undo
\* or a redo is in flight, and, every store call settling, it is released
\* again whether the call succeeded or failed: the client does not stay
\* locked out of undo, redo and snapshots.
C37_FlagAlwaysReleased == [](isExecutingCommand => UndoRedoInFlight) /\ (isExecutingCommand ~> ~isExecutingCommand)

C37_Witness ==
    /\ trail # <<>>
    /\ trail[Len(trail)].call = "redo"
    /\ trail[Len(trail)].outcome = "failed"
    /\ ~isExecutingCommand
    /\ inflight = <<>>

\* No two objects of the list have the same id.
DistinctIds(list) == \A i, j \in 1..Len(list) : i # j => idOf(list[i]) # idOf(list[j])

\* C38: the list never holds two objects of the same id, however commits,
\* undos, redos and accepted snapshots interleave.
C38_IdsAreDistinct == DistinctIds(objects) /\ DistinctIds(objectsRef)

\* The delete of object 1 has been undone after the store had refused the
\* delete and kept the object, which a snapshot could bring back.
C38_Witness ==
    /\ Len(history) = 1
    /\ history[1].kind = "delete"
    /\ currentIndex = -1
    /\ budget.rejects = 0
    /\ inflight = <<>>
    /\ Has(objects, 1)
    /\ snap.result = "same"

\* C39: the cursor follows what has been done to the list also when a
\* store call fails: the undo after a failed undo runs another, earlier
\* command, not the same undo again, and the undo after a failed redo runs
\* the command that was redone.
C39_CursorFollowsLocalEffect ==
    \A i \in 1..(Len(trail) - 1) :
        /\ trail[i].call = "undo" /\ trail[i].outcome = "failed" /\ trail[i + 1].call = "undo" => trail[i + 1].serial # trail[i].serial
        /\ trail[i].call = "redo" /\ trail[i].outcome = "failed" /\ trail[i + 1].call = "undo" => trail[i + 1].serial = trail[i].serial

\* C40: after live updates of a property, the updateObject that commits
\* the final value and an undo, the property has the value it had before
\* the first live update, not the last live value.
C40_UndoRestoresPreDragValue ==
    \A c \in 1..Len(trail) : \A u \in 1..Len(trail) :
        /\ trail[c].call = "commit" /\ trail[c].cmd.kind = "update"
        /\ trail[u].call = "undo" /\ trail[u].serial = trail[c].serial
        /\ Get(Find(trail[c].pre, trail[c].cmd.objectId), "x") # InitStore[1].x
        => Get(Find(trail[u].post, trail[u].cmd.objectId), "x") = InitStore[1].x

=============================================================================
